---- MODULE Spec2Model ----
(***************************************************************************)
(* A model of src/main.py: the CSV filter/aggregate command-line utility.  *)
(*                                                                         *)
(* Text is modelled as a sequence of one-character strings, so that        *)
(* slicing, splitting, lexicographic comparison and float() parsing are    *)
(* computed character by character as the Python code computes them.       *)
(* A cell of a loaded row is either text or None: csv.DictReader fills the *)
(* columns a short line lacks with None (restval).                         *)
(*                                                                         *)
(* Not modelled: the fields a long line has beyond the header (DictReader  *)
(* stores them under the key None, which only print_table reads), the      *)
(* layout of the printed table, and the texts float() accepts that need    *)
(* characters outside Chars (a decimal point, an exponent, inf, nan,       *)
(* white space, underscores).  Numbers are therefore integers, and the     *)
(* numbers apply_agg returns are given in hundredths.                      *)
(***************************************************************************)
EXTENDS Integers, Sequences, FiniteSets

VARIABLES
    pc,        \* position in main(): "start", "loaded", "filtered", "aggregated", "done"
    file,      \* what args.file names on disk: "unset", "missing", "dir", "unreadable", "ok"
    fileRows,  \* the rows csv.DictReader yields for the file
    where,     \* args.where
    aggregate, \* args.aggregate
    data,      \* the list `data` (in main, or the list passed to a function)
    result,    \* the outcome of the aggregate stage of main
    out,       \* what has been printed, in order
    fault,     \* the exception that left main() unhandled, or "none"
    stages,    \* the stages main() has executed, in order
    call,      \* a direct call of one function: its name and arguments
    ret        \* the outcome of that call

vars == <<pc, file, fileRows, where, aggregate, data, result, out, fault, stages, call, ret>>

(***************************************************************************)
(* Bounds of the model.                                                    *)
(***************************************************************************)
MaxExprLen == 4
MaxRows == 2

(***************************************************************************)
(* Text.                                                                   *)
(***************************************************************************)
Chars == {"(", ")", "+", "-", "0", "1", "2", "3", "4", "5", "6", "7", "8", "9",
          "<", "=", ">", "N", "a", "b", "e", "g", "i", "m", "n", "o", "p", "q",
          "s", "u", "v", "x", "z"}

Digits == {"0", "1", "2", "3", "4", "5", "6", "7", "8", "9"}

\* ord(c): the code point, which is what Python's str comparison compares.
Ord(c) ==
    CASE c = "(" -> 40 [] c = ")" -> 41 [] c = "+" -> 43 [] c = "-" -> 45
      [] c = "0" -> 48 [] c = "1" -> 49 [] c = "2" -> 50 [] c = "3" -> 51
      [] c = "4" -> 52 [] c = "5" -> 53 [] c = "6" -> 54 [] c = "7" -> 55
      [] c = "8" -> 56 [] c = "9" -> 57
      [] c = "<" -> 60 [] c = "=" -> 61 [] c = ">" -> 62
      [] c = "N" -> 78
      [] c = "a" -> 97 [] c = "b" -> 98 [] c = "e" -> 101 [] c = "g" -> 103
      [] c = "i" -> 105 [] c = "m" -> 109 [] c = "n" -> 110 [] c = "o" -> 111
      [] c = "p" -> 112 [] c = "q" -> 113 [] c = "s" -> 115 [] c = "u" -> 117
      [] c = "v" -> 118 [] c = "x" -> 120 [] c = "z" -> 122

DigitVal(c) == Ord(c) - 48

\* s[i:] and s[:i] with Python's 0-based index i, 0 <= i <= len(s).
SliceFrom(s, i) == SubSeq(s, i + 1, Len(s))
SliceTo(s, i) == SubSeq(s, 1, i)

\* Python's a < b on str: the first differing code point decides, a proper
\* prefix is smaller.
RECURSIVE StrLess(_, _)
StrLess(a, b) ==
    IF b = <<>> THEN FALSE
    ELSE IF a = <<>> THEN TRUE
    ELSE IF Ord(Head(a)) # Ord(Head(b)) THEN Ord(Head(a)) < Ord(Head(b))
    ELSE StrLess(Tail(a), Tail(b))

(***************************************************************************)
(* Outcomes of a function: a returned value, or a raised exception with    *)
(* its Python type (exc) and the error kind its message states.            *)
(***************************************************************************)
Returned(v) == [exc |-> "none", kind |-> "none", val |-> v]
Raised(e, k) == [exc |-> e, kind |-> k, val |-> <<>>]
\* A function that returns None.
ReturnedNone == [exc |-> "none", kind |-> "None", val |-> <<>>]

(***************************************************************************)
(* float(x) for a cell or an operand.  Over the alphabet Chars a text      *)
(* parses exactly when it is an optional sign followed by one or more      *)
(* digits; any other text raises ValueError and None raises TypeError.     *)
(***************************************************************************)
None == [isNone |-> TRUE, text |-> <<>>]
Text(s) == [isNone |-> FALSE, text |-> s]

RECURSIVE DecimalValue(_, _)
DecimalValue(s, acc) ==
    IF s = <<>> THEN acc ELSE DecimalValue(Tail(s), 10 * acc + DigitVal(Head(s)))

AllDigits(s) == s # <<>> /\ \A i \in 1..Len(s) : s[i] \in Digits

FloatOfText(s) ==
    IF s # <<>> /\ Head(s) \in {"-", "+"}
    THEN IF AllDigits(Tail(s))
         THEN Returned((IF Head(s) = "-" THEN -1 ELSE 1) * DecimalValue(Tail(s), 0))
         ELSE Raised("ValueError", "float")
    ELSE IF AllDigits(s)
         THEN Returned(DecimalValue(s, 0))
         ELSE Raised("ValueError", "float")

Float(x) == IF x.isNone THEN Raised("TypeError", "float") ELSE FloatOfText(x.text)

\* str(x): the text itself, and "None" for None.
Str(x) == IF x.isNone THEN <<"N", "o", "n", "e">> ELSE x.text

(***************************************************************************)
(* parse_filter                                                            *)
(***************************************************************************)
operators == {">", "<", "="}

\* parse_filter_from with the operand cut one character early, so that it
\* starts at the operator.
RECURSIVE parse_filter_from_early_cut(_, _)
parse_filter_from_early_cut(filter_expr, idx) ==
    IF idx >= Len(filter_expr)
    THEN Raised("ValueError", "InvalidExpression")
    ELSE IF filter_expr[idx + 1] \in operators
         THEN Returned([col |-> SliceTo(filter_expr, idx),
                        op |-> filter_expr[idx + 1],
                        value |-> SliceFrom(filter_expr, idx)])
         ELSE parse_filter_from_early_cut(filter_expr, idx + 1)

\* The loop of parse_filter from 0-based position idx on.
RECURSIVE parse_filter_from(_, _)
parse_filter_from(filter_expr, idx) ==
    IF idx >= Len(filter_expr)
    THEN Raised("ValueError", "InvalidExpression")
    ELSE IF filter_expr[idx + 1] \in operators
         THEN Returned([col |-> SliceTo(filter_expr, idx),
                        op |-> filter_expr[idx + 1],
                        value |-> SliceFrom(filter_expr, idx + 1)])
         ELSE parse_filter_from(filter_expr, idx + 1)

parse_filter(filter_expr) == parse_filter_from(filter_expr, 0)

(***************************************************************************)
(* parse_agg                                                               *)
(***************************************************************************)
EndsWith(s, c) == s # <<>> /\ s[Len(s)] = c

\* s.split(sep, 1): one part when sep does not occur, else the text before
\* the first sep and the text after it.
RECURSIVE Find(_, _, _)
Find(s, c, idx) ==
    IF idx >= Len(s) THEN -1
    ELSE IF s[idx + 1] = c THEN idx
    ELSE Find(s, c, idx + 1)

Split1(s, sep) ==
    LET k == Find(s, sep, 0)
    IN  IF k = -1 THEN <<s>> ELSE <<SliceTo(s, k), SliceFrom(s, k + 1)>>

\* parse_agg splitting agg_expr itself, the closing parenthesis left in.
parse_agg_keeping_paren(agg_expr) ==
    IF ~EndsWith(agg_expr, ")")
    THEN Raised("ValueError", "InvalidExpression")
    ELSE LET parts == Split1(agg_expr, "(")
         IN  IF Len(parts) # 2
             THEN Raised("ValueError", "InvalidExpression")
             ELSE Returned([func |-> parts[1], col |-> parts[2]])

parse_agg(agg_expr) ==
    IF ~EndsWith(agg_expr, ")")
    THEN Raised("ValueError", "InvalidExpression")
    ELSE LET parts == Split1(SliceTo(agg_expr, Len(agg_expr) - 1), "(")
         IN  IF Len(parts) # 2
             THEN Raised("ValueError", "InvalidExpression")  \* the unpacking fails
             ELSE Returned([func |-> parts[1], col |-> parts[2]])

(***************************************************************************)
(* apply_filter                                                            *)
(***************************************************************************)
\* The three comparisons of lines 87-92 (numbers) and 96-101 (text).
NumKeeps(op, cell_val, cmp_val) ==
    \/ op = "=" /\ cell_val = cmp_val
    \/ op = ">" /\ cell_val > cmp_val
    \/ op = "<" /\ cell_val < cmp_val

StrKeeps(op, cell_val, cmp_val) ==
    \/ op = "=" /\ cell_val = cmp_val
    \/ op = ">" /\ StrLess(cmp_val, cell_val)
    \/ op = "<" /\ StrLess(cell_val, cmp_val)

\* filter_loop with a kept row put in front of the list instead of at its end.
RECURSIVE filter_loop_prepending(_, _, _, _, _, _, _)
filter_loop_prepending(rows, col, op, value, use_float, i, filtered) ==
    IF i > Len(rows) THEN Returned(filtered)
    ELSE LET row == rows[i]
             cell == row[col]
         IN  IF use_float
             THEN LET cell_val == Float(cell)
                  IN  IF cell_val.exc = "ValueError"
                      THEN filter_loop_prepending(rows, col, op, value, use_float, i + 1,
                               filtered)
                      ELSE IF cell_val.exc # "none"
                      THEN Raised(cell_val.exc, "float")
                      ELSE filter_loop_prepending(rows, col, op, value, use_float, i + 1,
                               IF NumKeeps(op, cell_val.val, FloatOfText(value).val)
                               THEN <<row>> \o filtered ELSE filtered)
             ELSE filter_loop_prepending(rows, col, op, value, use_float, i + 1,
                      IF StrKeeps(op, Str(cell), value)
                      THEN <<row>> \o filtered ELSE filtered)

\* The loop over the rows from (1-based) row i on; filtered is the list built
\* so far.  A ValueError of float(cell) skips the row; a TypeError is not
\* caught by `except ValueError` and leaves the function.
RECURSIVE filter_loop(_, _, _, _, _, _, _)
filter_loop(rows, col, op, value, use_float, i, filtered) ==
    IF i > Len(rows) THEN Returned(filtered)
    ELSE LET row == rows[i]
             cell == row[col]
         IN  IF use_float
             THEN LET cell_val == Float(cell)
                  IN  IF cell_val.exc = "ValueError"
                      THEN filter_loop(rows, col, op, value, use_float, i + 1, filtered)
                      ELSE IF cell_val.exc # "none"
                      THEN Raised(cell_val.exc, "float")
                      ELSE filter_loop(rows, col, op, value, use_float, i + 1,
                               IF NumKeeps(op, cell_val.val, FloatOfText(value).val)
                               THEN Append(filtered, row) ELSE filtered)
             ELSE filter_loop(rows, col, op, value, use_float, i + 1,
                      IF StrKeeps(op, Str(cell), value)
                      THEN Append(filtered, row) ELSE filtered)

\* apply_filter answering a column the table lacks with no rows.
apply_filter_ignoring_column(rows, col, op, value) ==
    IF rows = <<>> THEN Returned(rows)
    ELSE IF col \notin DOMAIN rows[1] THEN Returned(<<>>)
    ELSE filter_loop(rows, col, op, value, FloatOfText(value).exc = "none", 1, <<>>)

apply_filter(rows, col, op, value) ==
    IF rows = <<>> THEN Returned(rows)
    ELSE IF col \notin DOMAIN rows[1] THEN Raised("ValueError", "ColumnNotFound")
    ELSE filter_loop(rows, col, op, value, FloatOfText(value).exc = "none", 1, <<>>)

(***************************************************************************)
(* apply_agg.  A returned number is given in hundredths (Scale), the       *)
(* precision avg is rounded to.                                            *)
(***************************************************************************)
Scale == 100

\* The loop that builds `values` from row i on.
RECURSIVE values_loop(_, _, _, _)
values_loop(rows, col, i, values) ==
    IF i > Len(rows) THEN Returned(values)
    ELSE LET v == Float(rows[i][col])
         IN  IF v.exc = "ValueError" THEN Raised("ValueError", "NonNumericValue")
             ELSE IF v.exc # "none" THEN Raised(v.exc, "float")
             ELSE values_loop(rows, col, i + 1, Append(values, v.val))

RECURSIVE Sum(_)
Sum(values) == IF values = <<>> THEN 0 ELSE Head(values) + Sum(Tail(values))

RECURSIVE Min(_)
Min(values) ==
    IF Len(values) = 1 THEN Head(values)
    ELSE LET m == Min(Tail(values)) IN IF m < Head(values) THEN m ELSE Head(values)

RECURSIVE Max(_)
Max(values) ==
    IF Len(values) = 1 THEN Head(values)
    ELSE LET m == Max(Tail(values)) IN IF m > Head(values) THEN m ELSE Head(values)

\* round(num / den, 2) in hundredths: the nearest hundredth, a tie going to
\* the even one.  A mean of integers is a tie only when the number of rows
\* is a multiple of 8, and such a quotient is exact in binary floating point.
Round2(num, den) ==
    LET q == (Scale * num) \div den
        r == (Scale * num) % den
    IN  IF 2 * r < den THEN q
        ELSE IF 2 * r > den THEN q + 1
        ELSE IF q % 2 = 0 THEN q ELSE q + 1

S_avg == <<"a", "v", "g">>
S_min == <<"m", "i", "n">>
S_max == <<"m", "a", "x">>
S_sum == <<"s", "u", "m">>

\* apply_agg returning None for a function it does not know.
apply_agg_unknown_is_none(rows, col, func) ==
    IF rows = <<>> THEN ReturnedNone
    ELSE IF col \notin DOMAIN rows[1] THEN Raised("ValueError", "ColumnNotFound")
    ELSE LET values == values_loop(rows, col, 1, <<>>)
         IN  IF values.exc # "none" THEN values
             ELSE IF func = S_avg THEN Returned(Round2(Sum(values.val), Len(values.val)))
             ELSE IF func = S_min THEN Returned(Scale * Min(values.val))
             ELSE IF func = S_max THEN Returned(Scale * Max(values.val))
             ELSE ReturnedNone

\* apply_agg looking for the column before it looks whether there are rows.
apply_agg_column_first(rows, col, func) ==
    IF rows = <<>> \/ col \notin DOMAIN rows[1]
    THEN Raised("ValueError", "ColumnNotFound")
    ELSE LET values == values_loop(rows, col, 1, <<>>)
         IN  IF values.exc # "none" THEN values
             ELSE IF func = S_avg THEN Returned(Round2(Sum(values.val), Len(values.val)))
             ELSE IF func = S_min THEN Returned(Scale * Min(values.val))
             ELSE IF func = S_max THEN Returned(Scale * Max(values.val))
             ELSE Raised("ValueError", "UnknownFunction")

apply_agg(rows, col, func) ==
    IF rows = <<>> THEN ReturnedNone
    ELSE IF col \notin DOMAIN rows[1] THEN Raised("ValueError", "ColumnNotFound")
    ELSE LET values == values_loop(rows, col, 1, <<>>)
         IN  IF values.exc # "none" THEN values
             ELSE IF func = S_avg THEN Returned(Round2(Sum(values.val), Len(values.val)))
             ELSE IF func = S_min THEN Returned(Scale * Min(values.val))
             ELSE IF func = S_max THEN Returned(Scale * Max(values.val))
             ELSE Raised("ValueError", "UnknownFunction")

(***************************************************************************)
(* read_csv: the checks on the path, then the rows of the file.            *)
(***************************************************************************)
read_csv(file_path, rows) ==
    CASE file_path = "unset" -> Raised("TypeError", "path")
      [] file_path = "missing" -> Raised("FileNotFoundError", "FileNotFound")
      [] file_path = "dir" -> Raised("ValueError", "NotAFile")
      [] file_path = "unreadable" -> Raised("Exception", "ReadFailure")
      [] OTHER -> Returned(rows)

(***************************************************************************)
(* Inputs.                                                                 *)
(***************************************************************************)
\* The header of the file: column p is the first one, so a line that is not
\* blank always has a text in it; column q is None on a short line.
Columns == {<<"p">>, <<"q">>}
CellsP == {Text(<<"5">>), Text(<<"1", "0">>), Text(<<"0", "5">>), Text(<<"-", "3">>),
           Text(<<"b">>)}
CellsQ == {Text(<<"7">>), Text(<<>>), None}

Rows == {[c \in Columns |-> IF c = <<"p">> THEN x ELSE y] : x \in CellsP, y \in CellsQ}

Tables == UNION {[1..n -> Rows] : n \in 0..MaxRows}

\* Every text over a set of characters, up to a length.
RECURSIVE TextsUpTo(_, _)
TextsUpTo(cs, n) ==
    IF n = 0 THEN {<<>>}
    ELSE LET shorter == TextsUpTo(cs, n - 1)
         IN  shorter \cup {Append(t, c) : t \in shorter, c \in cs}

ExprChars == {"p", ">", "<", "=", "(", ")"}
Exprs == TextsUpTo(ExprChars, MaxExprLen)

ColumnArgs == Columns \cup {<<"z">>}
OperandArgs == {<<"5">>, <<"1", "0">>, <<"b">>, <<>>}
FuncArgs == {S_avg, S_min, S_max, S_sum}

WhereArgs == {None,
              Text(<<"p", ">", "5">>),
              Text(<<"q", "=", "7">>),
              Text(<<"p", "<", "-", "9">>),
              Text(<<"z", "=", "1">>),
              Text(<<"p", "5">>)}
AggregateArgs == {None,
                  Text(<<"a", "v", "g", "(", "p", ")">>),
                  Text(<<"m", "a", "x", "(", "q", ")">>),
                  Text(<<"s", "u", "m", "(", "p", ")">>),
                  Text(<<"m", "i", "n", "(", "z", ")">>),
                  Text(<<"a", "v", "g", "(", "p">>)}
Files == {"unset", "missing", "dir", "unreadable", "ok"}

\* `if x:` on an optional text: None and "" are both false.
Truthy(x) == ~x.isNone /\ x.text # <<>>

NoCall == [fn |-> "none"]
Pending == [exc |-> "pending", kind |-> "pending", val |-> <<>>]

(***************************************************************************)
(* main(): one action per stage.                                           *)
(***************************************************************************)
Line(kind, header, value) == [kind |-> kind, header |-> header, value |-> value]

InitMain ==
    /\ pc = "start"
    /\ file \in Files
    /\ fileRows \in (IF file = "ok" THEN Tables ELSE {<<>>})
    /\ where \in WhereArgs
    /\ aggregate \in AggregateArgs
    /\ data = <<>>
    /\ result = Pending
    /\ out = <<>>
    /\ fault = "none"
    /\ stages = <<>>
    /\ call = NoCall
    /\ ret = Pending

\* Lines 200-204.
Load ==
    /\ pc = "start"
    /\ LET r == read_csv(file, fileRows)
       IN  IF r.exc # "none"
           THEN /\ out' = Append(out, Line("Error", r.kind, <<>>))
                /\ pc' = "done"
                /\ data' = data
           ELSE /\ data' = r.val
                /\ pc' = "loaded"
                /\ out' = out
    /\ stages' = Append(stages, "load")
    /\ UNCHANGED <<file, fileRows, where, aggregate, result, fault, call, ret>>

\* parse_filter then apply_filter, as the body of the try of lines 207-209.
filter_stage(rows, expr) ==
    LET parsed == parse_filter(expr)
    IN  IF parsed.exc # "none" THEN parsed
        ELSE apply_filter(rows, parsed.val.col, parsed.val.op, parsed.val.value)

\* Lines 206-212 with --where given.
Filter ==
    /\ pc = "loaded"
    /\ Truthy(where)
    /\ LET r == filter_stage(data, where.text)
       IN  IF r.exc = "ValueError"
           THEN /\ out' = Append(out, Line("Filter error", r.kind, <<>>))
                /\ pc' = "done"
                /\ UNCHANGED <<data, fault>>
           ELSE IF r.exc # "none"
           THEN /\ fault' = r.exc
                /\ pc' = "done"
                /\ UNCHANGED <<data, out>>
           ELSE /\ data' = r.val
                /\ pc' = "filtered"
                /\ UNCHANGED <<out, fault>>
    /\ stages' = Append(stages, "filter")
    /\ UNCHANGED <<file, fileRows, where, aggregate, result, call, ret>>

\* Line 206 without --where.
SkipFilter ==
    /\ pc = "loaded"
    /\ ~Truthy(where)
    /\ pc' = "filtered"
    /\ UNCHANGED <<file, fileRows, where, aggregate, data, result, out, fault, stages, call, ret>>

\* aggregate_stage over the rows as loaded instead of the rows it is given.
aggregate_stage_of_loaded(rows, expr) ==
    LET parsed == parse_agg(expr)
    IN  IF parsed.exc # "none" THEN parsed
        ELSE LET r == apply_agg(fileRows, parsed.val.col, parsed.val.func)
             IN  IF r.exc # "none" THEN r
                 ELSE [exc |-> "none", kind |-> r.kind,
                       val |-> [func |-> parsed.val.func, col |-> parsed.val.col,
                                result |-> r.val]]

\* parse_agg then apply_agg, as the body of the try of lines 216-217; the
\* value carries func and col for the label.
aggregate_stage(rows, expr) ==
    LET parsed == parse_agg(expr)
    IN  IF parsed.exc # "none" THEN parsed
        ELSE LET r == apply_agg(rows, parsed.val.col, parsed.val.func)
             IN  IF r.exc # "none" THEN r
                 ELSE [exc |-> "none", kind |-> r.kind,
                       val |-> [func |-> parsed.val.func, col |-> parsed.val.col,
                                result |-> r.val]]

\* Lines 214-220 with --aggregate given.
Aggregate ==
    /\ pc = "filtered"
    /\ Truthy(aggregate)
    /\ LET r == aggregate_stage(data, aggregate.text)
       IN  IF r.exc = "ValueError"
           THEN /\ out' = Append(out, Line("Aggregate error", r.kind, <<>>))
                /\ pc' = "done"
                /\ UNCHANGED <<result, fault>>
           ELSE IF r.exc # "none"
           THEN /\ fault' = r.exc
                /\ pc' = "done"
                /\ UNCHANGED <<result, out>>
           ELSE /\ result' = r
                /\ pc' = "aggregated"
                /\ UNCHANGED <<out, fault>>
    /\ stages' = Append(stages, "aggregate")
    /\ UNCHANGED <<file, fileRows, where, aggregate, data, call, ret>>

\* Lines 222-226: f"{func}({col})" and the value, or the no-data message.
PrintAggregate ==
    /\ pc = "aggregated"
    /\ out' = Append(out,
                IF result.kind = "None"
                THEN Line("No data to aggregate", <<>>, <<>>)
                ELSE Line("Aggregate", result.val.func \o <<"(">> \o result.val.col \o <<")">>,
                          result.val.result))
    /\ pc' = "done"
    /\ stages' = Append(stages, "output")
    /\ UNCHANGED <<file, fileRows, where, aggregate, data, result, fault, call, ret>>

\* Lines 227-228 and print_table: the no-data message, or the rows.
PrintTable ==
    /\ pc = "filtered"
    /\ ~Truthy(aggregate)
    /\ out' = Append(out,
                IF data = <<>>
                THEN Line("No data to display", <<>>, <<>>)
                ELSE Line("Table", <<>>, data))
    /\ pc' = "done"
    /\ stages' = Append(stages, "output")
    /\ UNCHANGED <<file, fileRows, where, aggregate, data, result, fault, call, ret>>

Next == Load \/ Filter \/ SkipFilter \/ Aggregate \/ PrintAggregate \/ PrintTable

Spec == InitMain /\ [][Next]_vars

(***************************************************************************)
(* Direct calls of the four functions, as the unit tests make them: the    *)
(* arguments are drawn in the initial state and one action per function    *)
(* applies it.                                                             *)
(***************************************************************************)
ParseCall(f, e) == [fn |-> f, expr |-> e]
FilterCall(t, c, o, v) == [fn |-> "apply_filter", rows |-> t, col |-> c, op |-> o, value |-> v]
AggCall(t, c, f) == [fn |-> "apply_agg", rows |-> t, col |-> c, func |-> f]

InitCall ==
    /\ \/ \E f \in {"parse_filter", "parse_agg"}, e \in Exprs : call = ParseCall(f, e)
       \/ \E t \in Tables, c \in ColumnArgs, o \in operators, v \in OperandArgs :
             call = FilterCall(t, c, o, v)
       \/ \E t \in Tables, c \in ColumnArgs, f \in FuncArgs : call = AggCall(t, c, f)
    /\ data = (IF call.fn \in {"apply_filter", "apply_agg"} THEN call.rows ELSE <<>>)
    /\ ret = Pending
    /\ pc = "call"
    /\ file = "ok"
    /\ fileRows = <<>>
    /\ where = None
    /\ aggregate = None
    /\ result = Pending
    /\ out = <<>>
    /\ fault = "none"
    /\ stages = <<>>

ParseFilterCall ==
    /\ call.fn = "parse_filter"
    /\ ret = Pending
    /\ ret' = parse_filter(call.expr)
    /\ UNCHANGED <<pc, file, fileRows, where, aggregate, data, result, out, fault, stages, call>>

ParseAggCall ==
    /\ call.fn = "parse_agg"
    /\ ret = Pending
    /\ ret' = parse_agg(call.expr)
    /\ UNCHANGED <<pc, file, fileRows, where, aggregate, data, result, out, fault, stages, call>>

\* apply_filter reads `data` and appends to a list of its own.
ApplyFilterCall ==
    /\ call.fn = "apply_filter"
    /\ ret = Pending
    /\ ret' = apply_filter(data, call.col, call.op, call.value)
    /\ UNCHANGED <<pc, file, fileRows, where, aggregate, data, result, out, fault, stages, call>>

ApplyAggCall ==
    /\ call.fn = "apply_agg"
    /\ ret = Pending
    /\ ret' = apply_agg(data, call.col, call.func)
    /\ UNCHANGED <<pc, file, fileRows, where, aggregate, data, result, out, fault, stages, call>>

NextCall == ParseFilterCall \/ ParseAggCall \/ ApplyFilterCall \/ ApplyAggCall

SpecCall == InitCall /\ [][NextCall]_vars

(***************************************************************************)
(* What the properties below are stated with.                              *)
(***************************************************************************)
\* a is a subsequence of b: a is b with some elements left out.
RECURSIVE IsSubsequence(_, _)
IsSubsequence(a, b) ==
    IF a = <<>> THEN TRUE
    ELSE IF b = <<>> THEN FALSE
    ELSE IF Head(a) = Head(b) THEN IsSubsequence(Tail(a), Tail(b))
    ELSE IsSubsequence(a, Tail(b))

Contains(s, cs) == \E i \in 1..Len(s) : s[i] \in cs

\* A cell or operand that is a number: a text of digits with an optional
\* sign.  NumberOf is its value.
IsNumber(x) ==
    /\ ~x.isNone
    /\ LET t == x.text
           d == IF t # <<>> /\ t[1] \in {"-", "+"} THEN Tail(t) ELSE t
       IN  d # <<>> /\ \A i \in 1..Len(d) : d[i] \in Digits
NumberOf(x) == FloatOfText(x.text).val

\* The row cell satisfies `cell op operand` in the mode the operand selects.
Satisfies(cell, op, operand) ==
    IF IsNumber(Text(operand))
    THEN /\ IsNumber(cell)
         /\ \/ op = "=" /\ NumberOf(cell) = NumberOf(Text(operand))
            \/ op = ">" /\ NumberOf(cell) > NumberOf(Text(operand))
            \/ op = "<" /\ NumberOf(cell) < NumberOf(Text(operand))
    ELSE \/ op = "=" /\ Str(cell) = operand
         \/ op = ">" /\ StrLess(operand, Str(cell))
         \/ op = "<" /\ StrLess(Str(cell), operand)

\* The rows of t whose cell in column col satisfies the condition.
Matching(t, col, op, operand) ==
    SelectSeq(t, LAMBDA row : Satisfies(row[col], op, operand))

Called(fn) == call.fn = fn /\ ret # Pending

(***************************************************************************)
(* C1: whenever apply_filter succeeds, what it returns is a subsequence of *)
(* the table it was given (rows of the table, none more often than there,  *)
(* in the table's order), and the table is as it was before the call.      *)
(***************************************************************************)
C1_FilterIsSubsequence ==
    (Called("apply_filter") /\ ret.exc = "none")
        => /\ IsSubsequence(ret.val, call.rows)
           /\ data = call.rows

\* apply_filter dropped the first row of a table and kept a later, different one.
C1_Witness ==
    /\ Called("apply_filter") /\ ret.exc = "none"
    /\ Len(call.rows) >= 2 /\ call.rows[1] # call.rows[Len(call.rows)]
    /\ ret.val = <<call.rows[Len(call.rows)]>>

(***************************************************************************)
(* C2: apply_filter chooses the mode from the operand alone.  With an      *)
(* operand that is a number it keeps exactly the rows whose cell is a      *)
(* number that compares true, and a row whose cell does not parse is left  *)
(* out without any error; with any other operand it keeps exactly the rows *)
(* whose cell text compares true against the operand text.                 *)
(***************************************************************************)
C2_FilterByMode ==
    (Called("apply_filter") /\ call.rows # <<>> /\ call.col \in DOMAIN call.rows[1])
        => /\ ret.exc = "none"
           /\ ret.val = Matching(call.rows, call.col, call.op, call.value)

\* The same on the tables every cell of which is text.
C2_FilterByModeOnText ==
    (/\ Called("apply_filter") /\ call.rows # <<>> /\ call.col \in DOMAIN call.rows[1]
     /\ \A i \in 1..Len(call.rows) : ~call.rows[i][call.col].isNone)
        => /\ ret.exc = "none"
           /\ ret.val = Matching(call.rows, call.col, call.op, call.value)

(***************************************************************************)
(* C3: apply_filter and apply_agg given a column that the table does not   *)
(* have always raise an error.                                             *)
(***************************************************************************)
C3_MissingColumnAlwaysFails ==
    ((Called("apply_filter") \/ Called("apply_agg")) /\ call.col \notin Columns)
        => ret.exc # "none"

\* C3 as amended: on a table that is not empty, apply_filter and apply_agg
\* given a column that the first row does not have fail with ColumnNotFound.
C3_MissingColumnFailsOnRows ==
    (/\ Called("apply_filter") \/ Called("apply_agg")
     /\ call.rows # <<>>
     /\ call.col \notin DOMAIN call.rows[1])
        => ret.exc = "ValueError" /\ ret.kind = "ColumnNotFound"

\* apply_filter refused a column that a table of two rows does not have.
C3_Witness ==
    /\ Called("apply_filter") /\ Len(call.rows) = 2 /\ call.col \notin Columns
    /\ ret.kind = "ColumnNotFound"

(***************************************************************************)
(* C4: apply_agg with a function name other than avg, min and max fails    *)
(* with UnknownFunction, whatever the table and the column are.            *)
(***************************************************************************)
KnownFuncs == {S_avg, S_min, S_max}

C4_UnknownFunctionAlwaysFails ==
    (Called("apply_agg") /\ call.func \notin KnownFuncs)
        => ret.exc = "ValueError" /\ ret.kind = "UnknownFunction"

\* C4 as amended: apply_agg with a function name other than avg, min and max
\* fails with UnknownFunction when the table is not empty, has the column and
\* every cell of the column is a number.
C4_UnknownFunctionFailsOnNumbers ==
    (/\ Called("apply_agg") /\ call.func \notin KnownFuncs
     /\ call.rows # <<>>
     /\ call.col \in DOMAIN call.rows[1]
     /\ \A i \in 1..Len(call.rows) : IsNumber(call.rows[i][call.col]))
        => ret.exc = "ValueError" /\ ret.kind = "UnknownFunction"

\* apply_agg refused sum over a numeric column of two rows.
C4_Witness ==
    /\ Called("apply_agg") /\ call.func = S_sum /\ Len(call.rows) = 2
    /\ ret.kind = "UnknownFunction"

(***************************************************************************)
(* C5: apply_agg over a table that is not empty and has the column fails   *)
(* with NonNumericValue whenever some row's cell in the column is not a    *)
(* number, whichever row it is, and returns no number.                     *)
(***************************************************************************)
C5_NonNumericFails ==
    (/\ Called("apply_agg")
     /\ call.rows # <<>>
     /\ call.col \in DOMAIN call.rows[1]
     /\ \E i \in 1..Len(call.rows) : ~IsNumber(call.rows[i][call.col]))
        => ret.exc = "ValueError" /\ ret.kind = "NonNumericValue"

\* The same on the tables every cell of which is text.
C5_NonNumericFailsOnText ==
    (/\ Called("apply_agg")
     /\ call.rows # <<>>
     /\ call.col \in DOMAIN call.rows[1]
     /\ \A i \in 1..Len(call.rows) : ~call.rows[i][call.col].isNone
     /\ \E i \in 1..Len(call.rows) : ~IsNumber(call.rows[i][call.col]))
        => ret.exc = "ValueError" /\ ret.kind = "NonNumericValue"

(***************************************************************************)
(* C6: parse_filter splits at the first of the characters > < =: column,   *)
(* operator and operand put together give the expression back, the column  *)
(* holds none of the three characters and the operator is one of them; it  *)
(* fails with InvalidExpression exactly when the expression holds none.    *)
(***************************************************************************)
C6_ParseFilterSplitsAtFirst ==
    Called("parse_filter") =>
        IF Contains(call.expr, {">", "<", "="})
        THEN /\ ret.exc = "none"
             /\ ret.val.col \o <<ret.val.op>> \o ret.val.value = call.expr
             /\ ret.val.op \in {">", "<", "="}
             /\ ~Contains(ret.val.col, {">", "<", "="})
        ELSE ret.exc = "ValueError" /\ ret.kind = "InvalidExpression"

\* parse_filter split an expression whose operand holds an operator character.
C6_Witness ==
    /\ Called("parse_filter") /\ ret.exc = "none"
    /\ ret.val.col # <<>>
    /\ Contains(ret.val.value, {">", "<", "="})

(***************************************************************************)
(* C7: parse_agg fails with InvalidExpression when the expression does not *)
(* end with ) or has no ( before that last character; otherwise function   *)
(* name, (, column and ) put together give the expression back and the     *)
(* function name holds no (, whatever the function name is.                *)
(***************************************************************************)
C7_ParseAggSplitsAtFirstParen ==
    Called("parse_agg") =>
        IF \/ call.expr = <<>>
           \/ call.expr[Len(call.expr)] # ")"
           \/ ~Contains(SubSeq(call.expr, 1, Len(call.expr) - 1), {"("})
        THEN ret.exc = "ValueError" /\ ret.kind = "InvalidExpression"
        ELSE /\ ret.exc = "none"
             /\ ret.val.func \o <<"(">> \o ret.val.col \o <<")">> = call.expr
             /\ ~Contains(ret.val.func, {"("})

\* parse_agg split an expression with a second ( in it, and a function name
\* that is no aggregate.
C7_Witness ==
    /\ Called("parse_agg") /\ ret.exc = "none"
    /\ ret.val.func \notin KnownFuncs /\ ret.val.func # <<>>
    /\ Contains(ret.val.col, {"("})

(***************************************************************************)
(* Runs of main().                                                         *)
(***************************************************************************)
Pipeline == <<"load", "filter", "aggregate", "output">>

IsPrefix(a, b) == Len(a) <= Len(b) /\ a = SubSeq(b, 1, Len(a))

\* The condition and the aggregate call that the arguments of the run state.
Condition == parse_filter(where.text).val
AggregateCall == parse_agg(aggregate.text).val

\* The numbers of column col of the rows t.
NumbersOf(t, col) == [i \in 1..Len(t) |-> NumberOf(t[i][col])]

\* h hundredths is the number that func makes of the numbers ns: the least,
\* the greatest, or a hundredth nearest to their mean.
IsAggregateOf(h, func, ns) ==
    LET n == Len(ns)
        total == Sum(ns)
        d == Scale * total - h * n
    IN  CASE func = S_min -> (\E i \in 1..n : h = Scale * ns[i])
                             /\ (\A i \in 1..n : h <= Scale * ns[i])
          [] func = S_max -> (\E i \in 1..n : h = Scale * ns[i])
                             /\ (\A i \in 1..n : h >= Scale * ns[i])
          [] func = S_avg -> 2 * d <= n /\ -2 * d <= n
          [] OTHER -> FALSE

PrintedAggregate == pc = "done" /\ out # <<>> /\ out[Len(out)].kind = "Aggregate"

(***************************************************************************)
(* C8: in a run with a filter and an aggregate the stages run in the order *)
(* load, filter, aggregate, output, and the value printed under the label  *)
(* function(column) is the aggregate of the rows of the file that satisfy  *)
(* the filter condition, not of all the rows of the file.                  *)
(***************************************************************************)
C8_AggregateOfFilteredRows ==
    (Truthy(where) /\ Truthy(aggregate))
        => /\ IsPrefix(stages, Pipeline)
           /\ PrintedAggregate =>
                /\ stages = Pipeline
                /\ out = <<Line("Aggregate", aggregate.text, out[1].value)>>
                /\ IsAggregateOf(out[1].value, AggregateCall.func,
                       NumbersOf(Matching(fileRows, Condition.col, Condition.op,
                                          Condition.value),
                                 AggregateCall.col))

\* A run printed an aggregate of the kept rows that is not an aggregate of
\* all the rows of the file.
C8_Witness ==
    /\ Truthy(where) /\ Truthy(aggregate) /\ PrintedAggregate
    /\ Len(data) < Len(fileRows)
    /\ \A i \in 1..Len(fileRows) : IsNumber(fileRows[i][AggregateCall.col])
    /\ ~IsAggregateOf(out[1].value, AggregateCall.func, NumbersOf(fileRows, AggregateCall.col))

(***************************************************************************)
(* C9: every failure of the load, filter or aggregate stage is caught in   *)
(* main: the run prints one message with the category of that stage and    *)
(* ends, no later stage runs, no table and no aggregate value is printed,  *)
(* and no exception leaves main.                                           *)
(***************************************************************************)
ErrorLines == {"Error", "Filter error", "Aggregate error"}

StageOf(category) ==
    CASE category = "Error" -> "load"
      [] category = "Filter error" -> "filter"
      [] category = "Aggregate error" -> "aggregate"

C9_EveryFailureIsReported ==
    /\ fault = "none"
    /\ \A i \in 1..Len(out) :
          out[i].kind \in ErrorLines
              => /\ Len(out) = 1
                 /\ pc = "done"
                 /\ stages[Len(stages)] = StageOf(out[i].kind)

\* No exception leaves main.
C9_NoFault == fault = "none"

\* A failure that is reported is reported as C9 says.
C9_ReportedFailures ==
    \A i \in 1..Len(out) :
        out[i].kind \in ErrorLines
            => /\ Len(out) = 1
               /\ pc = "done"
               /\ stages[Len(stages)] = StageOf(out[i].kind)

(***************************************************************************)
(* C10: a run whose filter matches no rows does not end in an error:       *)
(* without an aggregate it prints the empty-table message and with an      *)
(* aggregate, whatever its expression is, the nothing-to-aggregate one.    *)
(***************************************************************************)
\* The run is over and its filter stage returned no rows.
FilterMatchedNothing ==
    /\ pc = "done" /\ Truthy(where)
    /\ Len(stages) > 2 /\ stages[2] = "filter"
    /\ data = <<>>

C10_NoMatchIsNoError ==
    FilterMatchedNothing
        => /\ fault = "none"
           /\ out = <<Line(IF Truthy(aggregate) THEN "No data to aggregate"
                           ELSE "No data to display", <<>>, <<>>)>>

\* C10 as amended: with an aggregate, the run prints the nothing-to-aggregate
\* message when the aggregate expression ends with ) and has a ( before it,
\* whatever function and column it names; any other aggregate expression ends
\* the run with an aggregate error.
WellFormedAggregate ==
    /\ aggregate.text[Len(aggregate.text)] = ")"
    /\ Contains(SubSeq(aggregate.text, 1, Len(aggregate.text) - 1), {"("})

C10_NoMatchIsNoErrorIfWellFormed ==
    FilterMatchedNothing
        => /\ fault = "none"
           /\ out = <<IF ~Truthy(aggregate) THEN Line("No data to display", <<>>, <<>>)
                      ELSE IF WellFormedAggregate
                           THEN Line("No data to aggregate", <<>>, <<>>)
                           ELSE Line("Aggregate error", "InvalidExpression", <<>>)>>

\* The filter of a run kept none of the rows of the file, and the aggregate,
\* of a column the file does not have, reported that there is nothing to
\* aggregate.
C10_Witness ==
    /\ FilterMatchedNothing /\ fileRows # <<>>
    /\ Truthy(aggregate) /\ WellFormedAggregate /\ AggregateCall.col \notin Columns
    /\ out = <<Line("No data to aggregate", <<>>, <<>>)>>

====
